---- MODULE Spec2Model ----
(***************************************************************************)
(* bcachefs-exporter (src/src/main.rs): the scrape pipeline                *)
(*   http_metrics -> get_metrics -> find_bcachefs -> Fs::get_metrics ->    *)
(*   Fs::find_devices -> Device::get_metrics -> Device::alloc_debug ->     *)
(*   sectors_to_bytes / Device::buckets_to_bytes -> Metric::encode.        *)
(*                                                                         *)
(* Text is a sequence of chunks.  Every character the code looks at        *)
(* (whitespace, newline, backslash, double quote, a digit, a sign) is a    *)
(* chunk of its own; a run of other characters ("user", "capacity", a      *)
(* metric name, a label key, a UUID) may be written as one chunk.          *)
(* A Result is a record with                                               *)
(* tag "Ok" (val) or "Err" (kind); a panic (assert_eq!, panic!, unwrap on  *)
(* None, arithmetic overflow in a build with overflow checks) is the third *)
(* outcome, tag "Panic" (at), which unwinds through every caller.          *)
(*                                                                         *)
(* Integers are scaled: usize and u64 (a 64-bit target) are WordBits wide, *)
(* and f64 keeps WordBits - 11 significant bits (53 of 64).                *)
(***************************************************************************)
EXTENDS Integers, Sequences, FiniteSets, TLC

VARIABLES
    overflow_checks,  \* build profile: TRUE debug (overflow panics), FALSE release (wraps)
    text,             \* unit converter: the token handed to the converter
    bucket_file,      \* unit converter: content of dev-N/bucket_size
    conv,             \* unit converter: the last conversion and its result
    metric,           \* encoder: the Metric being encoded
    encoded,          \* encoder: the text line produced
    table,            \* table parser: content of dev-N/alloc_debug
    parsed,           \* table parser: result of Device::alloc_debug
    pc,               \* scrape: position of http_metrics
    fs_left,          \* scrape: filesystems still to visit
    fs_cur,           \* scrape: the Fs being processed
    dev_left,         \* scrape: Devices of fs_cur still to extract
    found,            \* scrape: last result of Fs::find_devices with the listing it read
    visited,          \* scrape: per-device extraction results so far, in order
    metrics,          \* scrape: get_metrics' accumulator
    response          \* scrape: what the HTTP client receives

convVars == <<text, bucket_file, conv>>
encVars == <<metric, encoded>>
tabVars == <<table, parsed>>
scrapeVars == <<pc, fs_left, fs_cur, dev_left, found, visited, metrics, response>>
vars == <<overflow_checks, convVars, encVars, tabVars, scrapeVars>>

\* ------------------------------------------------------------------ bounds

WordBits == 20
MaxTextLen == 3
MaxValueLen == 3
MaxRows == 3
MaxFs == 2
MaxEntries == 2

\* ------------------------------------------------------------------ results

Ok(v) == [tag |-> "Ok", val |-> v]
Err(k) == [tag |-> "Err", kind |-> k]
Panic(w) == [tag |-> "Panic", at |-> w]
None == [tag |-> "None"]

IsOk(r) == r.tag = "Ok"
IsErr(r) == r.tag = "Err"

\* ------------------------------------------------------------------ text

\* The sequences over S of length at most n.
RECURSIVE Seqs(_, _)
Seqs(S, n) ==
    IF n = 0 THEN {<<>>}
    ELSE LET shorter == Seqs(S, n - 1)
         IN  shorter \cup {Append(s, x) : s \in {t \in shorter : Len(t) = n - 1}, x \in S}

Range(s) == {s[i] : i \in 1..Len(s)}

RECURSIVE Concat(_)
Concat(ss) == IF ss = <<>> THEN <<>> ELSE Head(ss) \o Concat(Tail(ss))

Last(s) == s[Len(s)]
Front(s) == SubSeq(s, 1, Len(s) - 1)

\* ------------------------------------------------------------------ integers

RECURSIVE Pow2(_)
Pow2(n) == IF n = 0 THEN 1 ELSE 2 * Pow2(n - 1)

WordMod == Pow2(WordBits)
WordMax == WordMod - 1

DigitChars == {"0", "1", "2", "3", "4", "5", "6", "7", "8", "9"}
DigitVal(c) ==
    CASE c = "0" -> 0 [] c = "1" -> 1 [] c = "2" -> 2 [] c = "3" -> 3 [] c = "4" -> 4
      [] c = "5" -> 5 [] c = "6" -> 6 [] c = "7" -> 7 [] c = "8" -> 8 [] c = "9" -> 9
DigitChar(d) == <<"0", "1", "2", "3", "4", "5", "6", "7", "8", "9">>[d + 1]

\* usize::to_string / f64 Display of an integral value: decimal digits, no sign,
\* no fraction, no exponent.
RECURSIVE to_string(_)
to_string(n) ==
    IF n < 10 THEN <<DigitChar(n)>> ELSE Append(to_string(n \div 10), DigitChar(n % 10))

\* The digit loop of <usize as FromStr>::from_str: checked_mul(10), checked_add(digit).
RECURSIVE ParseDigits(_, _)
ParseDigits(digits, acc) ==
    IF digits = <<>> THEN Ok(acc)
    ELSE IF Head(digits) \notin DigitChars THEN Err("ParseIntError")
    ELSE IF acc > WordMax \div 10 THEN Err("ParseIntError")
    ELSE IF acc * 10 > WordMax - DigitVal(Head(digits)) THEN Err("ParseIntError")
    ELSE ParseDigits(Tail(digits), acc * 10 + DigitVal(Head(digits)))

\* str::parse::<usize>() and str::parse::<u64>(): empty, a lone sign and a leading '-'
\* are errors; one leading '+' is accepted.
parse(s) ==
    IF s = <<>> THEN Err("ParseIntError")
    ELSE IF s = <<"+">> \/ s = <<"-">> THEN Err("ParseIntError")
    ELSE IF Head(s) = "+" THEN ParseDigits(Tail(s), 0)
    ELSE ParseDigits(s, 0)

RECURSIVE BitLen(_)
BitLen(x) == IF x = 0 THEN 0 ELSE 1 + BitLen(x \div 2)

F64_MANTISSA_DIGITS == WordBits - 11

\* `x as f64` for an unsigned x: round to nearest, ties to even, at the f64 precision.
as_f64(x) ==
    IF BitLen(x) <= F64_MANTISSA_DIGITS THEN x
    ELSE LET e == BitLen(x) - F64_MANTISSA_DIGITS
             q == x \div Pow2(e)
             r == x % Pow2(e)
             half == Pow2(e - 1)
         IN  IF r > half \/ (r = half /\ q % 2 = 1) THEN (q + 1) * Pow2(e) ELSE q * Pow2(e)

\* usize << 9: the bits shifted past the word are dropped (no overflow check applies
\* to a shift by less than the width).
SECTOR_SHIFT == 9
shl(x, k) == (x * Pow2(k)) % WordMod

\* u64 * u64 in a build without overflow checks.
RECURSIVE wrapping_mul(_, _)
wrapping_mul(a, b) ==
    IF b = 0 THEN 0
    ELSE ((IF b % 2 = 1 THEN a ELSE 0) + 2 * wrapping_mul(a, b \div 2)) % WordMod

MulOverflows(a, b) == a # 0 /\ b > WordMax \div a

\* ------------------------------------------------------------------ unit converter

sectors_to_bytes(sectors) ==
    LET p == parse(sectors)
    IN  IF IsErr(p) THEN p ELSE Ok(as_f64(shl(p.val, SECTOR_SHIFT)))

\* dev-N/bucket_size: absent, or text that byte_unit either rejects or reads as a
\* number with a unit.
UnitFactor(u) == CASE u = "B" -> 1 [] u = "KiB" -> 1024
BucketFiles ==
    {[kind |-> "absent"], [kind |-> "garbage"]}
    \cup {[kind |-> "quantity", num |-> n, unit |-> "B"] : n \in {0, 1, 512}}
    \cup {[kind |-> "quantity", num |-> n, unit |-> "KiB"] : n \in {4, 512}}

bucket_size(file) ==
    IF file.kind = "absent" THEN Err("io::Error")
    ELSE IF file.kind = "garbage" THEN Err("byte_unit::ParseError")
    ELSE Ok(file.num * UnitFactor(file.unit))

buckets_to_bytes(file, sectors) ==
    LET p == parse(sectors)
    IN  IF IsErr(p) THEN p
        ELSE LET b == bucket_size(file)
             IN  IF IsErr(b) THEN b
                 ELSE IF MulOverflows(b.val, p.val)
                      THEN IF overflow_checks THEN Panic("attempt to multiply with overflow")
                           ELSE Ok(as_f64(wrapping_mul(b.val, p.val)))
                 ELSE Ok(as_f64(b.val * p.val))

\* ------------------------------------------------------------------ metric encoder

BS == "\\"
QUOTE == "\""
NL == "\n"

\* str::replace(from: char, to: &str)
RECURSIVE replace(_, _, _)
replace(s, from, to) ==
    IF s = <<>> THEN <<>>
    ELSE (IF Head(s) = from THEN to ELSE <<Head(s)>>) \o replace(Tail(s), from, to)

\* The same three passes with the backslash pass last: the order that corrupts the
\* escapes of the other two characters.
escape_backslash_last(value) ==
    replace(replace(replace(value, NL, <<BS, "n">>), QUOTE, <<BS, QUOTE>>), BS, <<BS, BS>>)

\* The three chained replace calls of encode_labels, backslash first.
escape(value) ==
    replace(replace(replace(value, BS, <<BS, BS>>), NL, <<BS, "n">>), QUOTE, <<BS, QUOTE>>)

\* A rendering that separates the labels by commas and puts none after the last.
RECURSIVE encode_labels_joined(_)
encode_labels_joined(labels) ==
    IF labels = <<>> THEN <<>>
    ELSE <<Head(labels)[1]>> \o <<"=", QUOTE>> \o escape(Head(labels)[2]) \o <<QUOTE>>
         \o (IF Tail(labels) = <<>> THEN <<>> ELSE <<",">>)
         \o encode_labels_joined(Tail(labels))

\* One pass of the loop per label: key, =", escaped value, ",
RECURSIVE encode_labels(_)
encode_labels(labels) ==
    IF labels = <<>> THEN <<>>
    ELSE <<Head(labels)[1]>> \o <<"=", QUOTE>> \o escape(Head(labels)[2]) \o <<QUOTE, ",">>
         \o encode_labels(Tail(labels))

f64_display(v) == to_string(v)

\* format!("{name}{{{labels}}} {value}\n")
encode(m) ==
    <<m.name>> \o <<"{">> \o encode_labels(m.labels) \o <<"}", " ">> \o f64_display(m.value)
    \o <<NL>>

\* ------------------------------------------------------------------ device extractor

Metric(name, labels, value) == [name |-> name, labels |-> labels, value |-> value]

device_labels(fs, device_no, device_name, label) ==
    << <<"fs", fs>>, <<"device_no", to_string(device_no)>>, <<"device", device_name>>,
       <<"label", label>> >>

Whitespace == {" ", "\t", NL}

\* str::trim
RECURSIVE trim_start(_)
trim_start(s) == IF s # <<>> /\ Head(s) \in Whitespace THEN trim_start(Tail(s)) ELSE s
RECURSIVE trim_end(_)
trim_end(s) == IF s # <<>> /\ Last(s) \in Whitespace THEN trim_end(Front(s)) ELSE s
trim(s) == trim_end(trim_start(s))

\* str::lines: split at every newline; a final newline ends the last line and opens
\* no further one.
RECURSIVE LinesFrom(_, _)
LinesFrom(s, cur) ==
    IF s = <<>> THEN (IF cur = <<>> THEN <<>> ELSE <<cur>>)
    ELSE IF Head(s) = NL THEN <<cur>> \o LinesFrom(Tail(s), <<>>)
    ELSE LinesFrom(Tail(s), Append(cur, Head(s)))
lines(s) == LinesFrom(s, <<>>)

\* str::split_whitespace: the maximal runs of non-whitespace.
RECURSIVE SplitFrom(_, _)
SplitFrom(s, cur) ==
    IF s = <<>> THEN (IF cur = <<>> THEN <<>> ELSE <<cur>>)
    ELSE IF Head(s) \in Whitespace
         THEN (IF cur = <<>> THEN <<>> ELSE <<cur>>) \o SplitFrom(Tail(s), <<>>)
    ELSE SplitFrom(Tail(s), Append(cur, Head(s)))
split_whitespace(s) == SplitFrom(s, <<>>)

HEADER == << <<"buckets">>, <<"sectors">>, <<"fragmented">> >>
CAPACITY == <<"capacity">>

\* A match that also parses the buckets and fragmented cells of a typed row.
match_cells_validating(labels, bfile, cells) ==
    IF Len(cells) = 4
    THEN LET b == parse(cells[2])
             v == sectors_to_bytes(cells[3])
             f == parse(cells[4])
         IN  IF IsErr(b) THEN b
             ELSE IF IsErr(v) THEN v
             ELSE IF IsErr(f) THEN f
             ELSE Ok(Metric("bcachefs_dev_alloc_bytes", Append(labels, <<"type", cells[1]>>), v.val))
    ELSE IF Len(cells) = 2 /\ cells[1] = CAPACITY
    THEN LET v == buckets_to_bytes(bfile, cells[2])
         IN  IF IsOk(v) THEN Ok(Metric("bcachefs_dev_capacity", labels, v.val)) ELSE v
    ELSE Panic("can't handle line")

\* The match of alloc_debug on one line's cells: Ok(metric), or the error or panic
\* that ends the extraction.
match_cells(labels, bfile, cells) ==
    IF Len(cells) = 4
    THEN LET v == sectors_to_bytes(cells[3])
         IN  IF IsOk(v)
             THEN Ok(Metric("bcachefs_dev_alloc_bytes", Append(labels, <<"type", cells[1]>>), v.val))
             ELSE v
    ELSE IF Len(cells) = 2 /\ cells[1] = CAPACITY
    THEN LET v == buckets_to_bytes(bfile, cells[2])
         IN  IF IsOk(v) THEN Ok(Metric("bcachefs_dev_capacity", labels, v.val)) ELSE v
    ELSE Panic("can't handle line")

\* A loop that passes over an empty line instead of stopping at it.
RECURSIVE alloc_rows_skip_blank(_, _, _, _)
alloc_rows_skip_blank(labels, bfile, rest, acc) ==
    IF rest = <<>> THEN Ok(acc)
    ELSE IF Head(rest) = <<>> THEN alloc_rows_skip_blank(labels, bfile, Tail(rest), acc)
    ELSE LET m == match_cells(labels, bfile, split_whitespace(Head(rest)))
         IN  IF IsOk(m) THEN alloc_rows_skip_blank(labels, bfile, Tail(rest), Append(acc, m.val))
             ELSE m

\* The for loop of alloc_debug over the lines after the header.
RECURSIVE alloc_rows(_, _, _, _)
alloc_rows(labels, bfile, rest, acc) ==
    IF rest = <<>> THEN Ok(acc)
    ELSE IF Head(rest) = <<>> THEN Ok(acc)
    ELSE LET m == match_cells(labels, bfile, split_whitespace(Head(rest)))
         IN  IF IsOk(m) THEN alloc_rows(labels, bfile, Tail(rest), Append(acc, m.val)) ELSE m

\* Device::alloc_debug; file is Ok(content of dev-N/alloc_debug), or None when the
\* file cannot be read.
alloc_debug(labels, bfile, file) ==
    IF file.tag = "None" THEN Err("io::Error")
    ELSE LET ls == lines(file.val)
         IN  IF ls = <<>> THEN Panic("unwrap on None")
             ELSE IF split_whitespace(Head(ls)) # HEADER THEN Panic("assert_eq")
             ELSE alloc_rows(labels, bfile, Tail(ls), <<>>)

\* Path::file_name of a link target given by its components: the last component,
\* unless the path is empty or ends in "..".
DOTDOT == <<"..">>
file_name(path) ==
    IF path = <<>> THEN None
    ELSE IF Last(path) = DOTDOT THEN None
    ELSE Ok(Last(path))

\* Device::get_metrics; dir holds what dev-N/block, dev-N/label, dev-N/bucket_size and
\* dev-N/alloc_debug read as (None: the read fails).
Device_get_metrics(fs, device_no, dir) ==
    IF dir.block.tag = "None" THEN Err("io::Error")
    ELSE IF file_name(dir.block.val).tag = "None" THEN Panic("unwrap on None")
    ELSE IF dir.label.tag = "None" THEN Err("io::Error")
    ELSE alloc_debug(
             device_labels(fs, device_no, file_name(dir.block.val).val, trim(dir.label.val)),
             dir.bucket_size, dir.alloc_debug)

\* ------------------------------------------------------------------ discovery

DEV_PREFIX == <<"d", "e", "v", "-">>
starts_with(s, prefix) == Len(s) >= Len(prefix) /\ SubSeq(s, 1, Len(prefix)) = prefix
strip_prefix(s, prefix) == SubSeq(s, Len(prefix) + 1, Len(s))

Device(fs, device_no) == [fs |-> fs, device_no |-> device_no]

\* A loop that passes over a dev- entry whose suffix does not parse.
RECURSIVE find_devices_loop_skip(_, _, _)
find_devices_loop_skip(fs, names, devices) ==
    IF names = <<>> THEN Ok(devices)
    ELSE IF ~starts_with(Head(names), DEV_PREFIX)
         THEN find_devices_loop_skip(fs, Tail(names), devices)
    ELSE LET n == parse(strip_prefix(Head(names), DEV_PREFIX))
         IN  IF IsErr(n) THEN find_devices_loop_skip(fs, Tail(names), devices)
             ELSE find_devices_loop_skip(fs, Tail(names), Append(devices, Device(fs, n.val)))

\* The loop of Fs::find_devices over the entry names read_dir yields, in its order.
RECURSIVE find_devices_loop(_, _, _)
find_devices_loop(fs, names, devices) ==
    IF names = <<>> THEN Ok(devices)
    ELSE IF ~starts_with(Head(names), DEV_PREFIX)
         THEN find_devices_loop(fs, Tail(names), devices)
    ELSE LET n == parse(strip_prefix(Head(names), DEV_PREFIX))
         IN  IF IsErr(n) THEN n
             ELSE find_devices_loop(fs, Tail(names), Append(devices, Device(fs, n.val)))

\* Fs::find_devices; listing is Ok(entry names) or None when read_dir fails.
find_devices(fs, listing) ==
    IF listing.tag = "None" THEN Err("io::Error") ELSE find_devices_loop(fs, listing.val, <<>>)

\* Uuid::parse_str on a root entry name, Uuid::to_string for the label and the path.
UUID_B == <<"11111111-1111-1111-1111-111111111111">>
UUID_2 == <<"22222222-2222-2222-2222-222222222222">>
Uuids == {UUID_B, UUID_2}
Uuid_parse_str(name) == IF name \in Uuids THEN Ok(name) ELSE Err("uuid::Error")

\* The loop of find_bcachefs over the root's entry names.
RECURSIVE find_bcachefs_loop(_, _)
find_bcachefs_loop(names, fs) ==
    IF names = <<>> THEN Ok(fs)
    ELSE LET u == Uuid_parse_str(Head(names))
         IN  IF IsErr(u) THEN u ELSE find_bcachefs_loop(Tail(names), Append(fs, u.val))

\* find_bcachefs; listing is Ok(entry names) or None when read_dir fails.
find_bcachefs(listing) ==
    IF listing.tag = "None" THEN Err("io::Error") ELSE find_bcachefs_loop(listing.val, <<>>)

\* ================================================================== state machines

\* A line of cells separated by single blanks, and a file of newline-terminated lines.
Words(ws) ==
    IF ws = <<>> THEN <<>>
    ELSE Head(ws) \o Concat([i \in 1..(Len(ws) - 1) |-> <<" ">> \o ws[i + 1]])
File(ls) == Concat([i \in 1..Len(ls) |-> ls[i] \o <<NL>>])

\* The header line as the kernel prints it, indented.
HEADER_LINE == <<" ", " ">> \o Words(HEADER)
BUCKET_4KIB == [kind |-> "quantity", num |-> 4, unit |-> "KiB"]

convIdle == text = <<>> /\ bucket_file = [kind |-> "absent"] /\ conv = None
encIdle == metric = None /\ encoded = None
tabIdle == table = <<>> /\ parsed = None
scrapeIdle ==
    /\ pc = "idle"
    /\ fs_left = <<>>
    /\ fs_cur = None
    /\ dev_left = <<>>
    /\ found = None
    /\ visited = <<>>
    /\ metrics = <<>>
    /\ response = None

\* ------------------------------------------------------------------ unit converter

NumAlphabet == {"0", "1", "2", "9", "+", "-", "a"}
Texts ==
    Seqs(NumAlphabet, MaxTextLen)
    \cup {to_string(Pow2(WordBits - SECTOR_SHIFT) - 1), to_string(Pow2(WordBits - SECTOR_SHIFT)),
          to_string(Pow2(F64_MANTISSA_DIGITS) + 1), to_string(WordMax), to_string(WordMod)}

InitConvert ==
    /\ overflow_checks \in BOOLEAN
    /\ text \in Texts
    /\ bucket_file \in BucketFiles
    /\ conv = None
    /\ encIdle /\ tabIdle /\ scrapeIdle

SectorsToBytes ==
    /\ conv = None
    /\ conv' = [tag |-> "Some", op |-> "sectors_to_bytes", res |-> sectors_to_bytes(text)]
    /\ UNCHANGED <<overflow_checks, text, bucket_file, encVars, tabVars, scrapeVars>>

BucketsToBytes ==
    /\ conv = None
    /\ conv' = [tag |-> "Some", op |-> "buckets_to_bytes",
                res |-> buckets_to_bytes(bucket_file, text)]
    /\ UNCHANGED <<overflow_checks, text, bucket_file, encVars, tabVars, scrapeVars>>

NextConvert == SectorsToBytes \/ BucketsToBytes

SpecConvert == InitConvert /\ [][NextConvert]_vars

\* C6: whenever the token parses as a usize n, sectors_to_bytes returns exactly
\* 512 * n, and whenever it does not parse, it returns an error.
C6_SectorsExact ==
    (conv.tag = "Some" /\ conv.op = "sectors_to_bytes") =>
        IF IsOk(parse(text)) THEN conv.res = Ok(512 * parse(text).val)
        ELSE IsErr(conv.res)

\* C7: whenever the bucket_size file reads as b bytes and the token parses as a u64 c,
\* buckets_to_bytes returns exactly c * b (no wrap-around, no panic), and an
\* unparsable token or bucket size yields an error.
C7_BucketsExact ==
    (conv.tag = "Some" /\ conv.op = "buckets_to_bytes") =>
        IF IsOk(parse(text)) /\ IsOk(bucket_size(bucket_file))
        THEN /\ IsOk(conv.res)
             /\ ~MulOverflows(bucket_size(bucket_file).val, parse(text).val)
             /\ conv.res.val = bucket_size(bucket_file).val * parse(text).val
        ELSE IsErr(conv.res)

\* ------------------------------------------------------------------ metric encoder

ValueAlphabet == {BS, QUOTE, NL, "n", "a"}
LabelValues == Seqs(ValueAlphabet, MaxValueLen) \cup {<<"ssd">>}
TypeValues == {<<"user">>, <<BS, "n">>}

\* A table with two rows of allocation type t and a capacity row.
TypedTable(t) ==
    File(<<HEADER_LINE,
           Words(<<t, <<"1", "0">>, <<"2", "0">>, <<"0">> >>),
           Words(<<t, <<"0">>, <<"0">>, <<"0">> >>),
           Words(<<CAPACITY, <<"1", "0", "0">> >>)>>)

\* The metrics Device::alloc_debug builds from such a table for a device sda, number 0,
\* of filesystem UUID_B, with every label text.
Metrics ==
    UNION {Range(alloc_debug(device_labels(UUID_B, 0, <<"sda">>, l), BUCKET_4KIB,
                             Ok(TypedTable(t))).val) :
               l \in LabelValues, t \in TypeValues}

InitEncode ==
    /\ overflow_checks = FALSE
    /\ metric \in Metrics
    /\ encoded = None
    /\ convIdle /\ tabIdle /\ scrapeIdle

Encode ==
    /\ encoded = None
    /\ encoded' = Ok(encode(metric))
    /\ UNCHANGED <<overflow_checks, metric, convVars, tabVars, scrapeVars>>

NextEncode == Encode

SpecEncode == InitEncode /\ [][NextEncode]_vars

\* A reader of the text exposition format, for one line.  ReadValue reads a quoted
\* label value from after its opening quote, left to right: \\ is a backslash, \n a
\* newline, \" a quote; an unescaped quote ends the value; a raw newline or any other
\* escape is malformed.
RECURSIVE ReadValue(_, _)
ReadValue(s, acc) ==
    IF s = <<>> THEN None
    ELSE IF Head(s) = QUOTE THEN [tag |-> "Some", val |-> acc, rest |-> Tail(s)]
    ELSE IF Head(s) = NL THEN None
    ELSE IF Head(s) = BS
         THEN IF Len(s) < 2 THEN None
              ELSE IF s[2] = BS THEN ReadValue(SubSeq(s, 3, Len(s)), Append(acc, BS))
              ELSE IF s[2] = "n" THEN ReadValue(SubSeq(s, 3, Len(s)), Append(acc, NL))
              ELSE IF s[2] = QUOTE THEN ReadValue(SubSeq(s, 3, Len(s)), Append(acc, QUOTE))
              ELSE None
    ELSE ReadValue(Tail(s), Append(acc, Head(s)))

\* The labels between { and }: key="value" pairs, each optionally followed by a comma.
RECURSIVE ReadLabels(_, _)
ReadLabels(s, acc) ==
    IF s = <<>> THEN None
    ELSE IF Head(s) = "}" THEN [tag |-> "Some", val |-> acc, rest |-> Tail(s)]
    ELSE IF Len(s) < 3 \/ s[2] # "=" \/ s[3] # QUOTE THEN None
    ELSE LET v == ReadValue(SubSeq(s, 4, Len(s)), <<>>)
         IN  IF v.tag = "None" THEN None
             ELSE LET r == IF v.rest # <<>> /\ Head(v.rest) = "," THEN Tail(v.rest) ELSE v.rest
                  IN  ReadLabels(r, Append(acc, <<s[1], v.val>>))

ReadLine(line) ==
    IF Len(line) < 2 \/ line[2] # "{" THEN None ELSE ReadLabels(SubSeq(line, 3, Len(line)), <<>>)

\* The quoted values of a line as emitted: what stands between =" and the closing
\* quote of each label of m, in order.
EmittedValues(m) == [i \in 1..Len(m.labels) |-> escape(m.labels[i][2])]

RECURSIVE UnescapedQuote(_)
UnescapedQuote(s) ==
    IF s = <<>> THEN FALSE
    ELSE IF Head(s) = BS THEN Len(s) >= 2 /\ UnescapedQuote(SubSeq(s, 3, Len(s)))
    ELSE Head(s) = QUOTE \/ UnescapedQuote(Tail(s))

HasChar(s, c) == \E i \in 1..Len(s) : s[i] = c

\* C5: reading the encoded line back recovers every label key and value exactly, and
\* the line holds no raw newline but its last character and no unescaped quote inside
\* a value.
C5_EscapeRoundTrip ==
    IsOk(encoded) =>
        /\ ReadLine(encoded.val).tag = "Some"
        /\ ReadLine(encoded.val).val = metric.labels
        /\ ~HasChar(Front(encoded.val), NL)
        /\ \A i \in 1..Len(metric.labels) : ~UnescapedQuote(EmittedValues(metric)[i])

C5_Witness ==
    /\ IsOk(encoded)
    /\ metric.labels[4][2] = <<BS, "n", QUOTE>>
    /\ ReadLine(encoded.val).val[4][2] = <<BS, "n", QUOTE>>

RenderLabel(l) == <<l[1], "=", QUOTE>> \o escape(l[2]) \o <<QUOTE>>

RECURSIVE JoinCommas(_)
JoinCommas(ls) ==
    IF ls = <<>> THEN <<>>
    ELSE IF Len(ls) = 1 THEN RenderLabel(ls[1])
    ELSE RenderLabel(Head(ls)) \o <<",">> \o JoinCommas(Tail(ls))

LabelKeys(m) == [i \in 1..Len(m.labels) |-> m.labels[i][1]]
KeysInOrder(m) ==
    LabelKeys(m) \in {<<"fs", "device_no", "device", "label">>,
                      <<"fs", "device_no", "device", "label", "type">>}

ScenarioB_alloc ==
    Metric("bcachefs_dev_alloc_bytes",
           << <<"fs", UUID_B>>, <<"device_no", <<"0">> >>, <<"device", <<"sda">> >>,
              <<"label", <<"ssd">> >>, <<"type", <<"user">> >> >>, 10240)

\* C4 as claimed: the line is name, {, the labels joined by single commas with no
\* comma after the last one, }, a space, the value and a newline.
C4_NoTrailingComma ==
    IsOk(encoded) =>
        /\ KeysInOrder(metric)
        /\ encoded.val = <<metric.name, "{">> \o JoinCommas(metric.labels) \o <<"}", " ">>
                         \o to_string(metric.value) \o <<NL>>

\* C4 as amended: the line is name, {, the labels in insertion order (fs, device_no,
\* device, label, then type when present), each rendered key="escaped value" and each
\* followed by one comma, the last label too, then }, a space, the value and a newline;
\* the alloc metric of scenario B reads
\* bcachefs_dev_alloc_bytes{fs="...",device_no="0",device="sda",label="ssd",type="user",} 10240
C4_TrailingComma ==
    IsOk(encoded) =>
        /\ KeysInOrder(metric)
        /\ encoded.val = <<metric.name, "{">> \o JoinCommas(metric.labels) \o <<",">>
                         \o <<"}", " ">> \o to_string(metric.value) \o <<NL>>
        /\ metric = ScenarioB_alloc =>
               encoded.val = <<"bcachefs_dev_alloc_bytes", "{",
                                "fs", "=", QUOTE, "11111111-1111-1111-1111-111111111111", QUOTE, ",",
                                "device_no", "=", QUOTE, "0", QUOTE, ",",
                                "device", "=", QUOTE, "sda", QUOTE, ",",
                                "label", "=", QUOTE, "ssd", QUOTE, ",",
                                "type", "=", QUOTE, "user", QUOTE, ",",
                                "}", " ", "1", "0", "2", "4", "0", NL>>

C4_Witness == IsOk(encoded) /\ metric = ScenarioB_alloc

\* ------------------------------------------------------------------ table parser

HeaderLines ==
    {HEADER_LINE,
     Words(<< <<"buckets">>, <<"sectors">> >>),
     <<>>}

DataLines ==
    {Words(<< <<"user">>, <<"1", "0">>, <<"2", "0">>, <<"0">> >>),
     Words(<< <<"sb">>, <<"a">>, <<"1">>, <<"0">> >>),     \* buckets not a number
     Words(<< <<"btree">>, <<"1">>, <<"2">>, <<"a">> >>),  \* fragmented not a number
     Words(<< <<"user">>, <<"1">>, <<"a">>, <<"0">> >>),   \* sectors not a number
     Words(<< CAPACITY, <<"1", "0", "0">> >>),
     Words(<< CAPACITY, <<"a">> >>),
     Words(<< <<"user">>, <<"1", "0">> >>),
     Words(<< <<"user">>, <<"1", "0">>, <<"2", "0">> >>),
     <<" ">>,
     <<>>}

Tables == {<<>>} \cup {File(<<h>> \o rows) : h \in HeaderLines, rows \in Seqs(DataLines, MaxRows)}

LABELS_B == device_labels(UUID_B, 0, <<"sda">>, <<"ssd">>)
LINK_B == << <<"..">>, <<"..">>, <<"block">>, <<"sda">> >>
LABEL_FILE_B == <<"ssd", NL>>

InitTable ==
    /\ overflow_checks \in BOOLEAN
    /\ table \in Tables
    /\ bucket_file \in {BUCKET_4KIB, [kind |-> "garbage"]}
    /\ parsed = None
    /\ text = <<>> /\ conv = None
    /\ encIdle /\ scrapeIdle

AllocDebug ==
    /\ parsed = None
    /\ parsed' = [tag |-> "Some", op |-> "alloc_debug",
                  res |-> alloc_debug(LABELS_B, bucket_file, Ok(table))]
    /\ UNCHANGED <<overflow_checks, table, convVars, encVars, scrapeVars>>

DeviceGetMetrics ==
    /\ parsed = None
    /\ parsed' = [tag |-> "Some", op |-> "get_metrics",
                  res |-> Device_get_metrics(UUID_B, 0,
                              [block |-> Ok(LINK_B), label |-> Ok(LABEL_FILE_B),
                               bucket_size |-> bucket_file, alloc_debug |-> Ok(table)])]
    /\ UNCHANGED <<overflow_checks, table, convVars, encVars, scrapeVars>>

NextTable == AllocDebug \/ DeviceGetMetrics

SpecTable == InitTable /\ [][NextTable]_vars

\* What the claims say about a table, read off its text.
HeaderOk(t) == lines(t) # <<>> /\ split_whitespace(Head(lines(t))) = HEADER

RECURSIVE UpToBlank(_)
UpToBlank(ls) ==
    IF ls = <<>> THEN <<>>
    ELSE IF Head(ls) = <<>> THEN <<>>
    ELSE <<Head(ls)>> \o UpToBlank(Tail(ls))

\* The cells of the data lines that precede the first empty line.
Rows(t) == LET ls == UpToBlank(Tail(lines(t))) IN [i \in 1..Len(ls) |-> split_whitespace(ls[i])]

IsTyped(cells) == Len(cells) = 4
IsCapacity(cells) == Len(cells) = 2 /\ cells[1] = CAPACITY
BadShape(cells) == ~IsTyped(cells) /\ ~IsCapacity(cells)

AllocDone == parsed.tag = "Some" /\ parsed.op = "alloc_debug"
ExtractDone == parsed.tag = "Some" /\ parsed.op = "get_metrics"

\* C2: a table whose header line is not exactly buckets sectors fragmented (or that
\* has no line at all) makes alloc_debug return an error value: no metric list and
\* no panic.
C2_HeaderError == (AllocDone /\ ~HeaderOk(table)) => IsErr(parsed.res)

\* C3: with a good header, a data line before the first empty line that is neither a
\* 4-token row nor capacity <buckets> makes alloc_debug return an error value: no
\* metric list and no panic.
C3_RowShapeError ==
    (AllocDone /\ HeaderOk(table) /\ \E i \in 1..Len(Rows(table)) : BadShape(Rows(table)[i]))
        => IsErr(parsed.res)

CapacityCount(ms) == Cardinality({i \in 1..Len(ms) : ms[i].name = "bcachefs_dev_capacity"})

\* Row by row: a typed row gives bcachefs_dev_alloc_bytes with the four base labels and
\* type; a capacity row gives bcachefs_dev_capacity with the four base labels only.
RowsToMetrics(t, ms) ==
    /\ Len(ms) = Len(Rows(t))
    /\ \A i \in 1..Len(ms) :
        LET cells == Rows(t)[i]
        IN  /\ IsTyped(cells) =>
                 /\ ms[i].name = "bcachefs_dev_alloc_bytes"
                 /\ ms[i].labels = Append(LABELS_B, <<"type", cells[1]>>)
            /\ ~IsTyped(cells) =>
                 /\ IsCapacity(cells)
                 /\ ms[i].name = "bcachefs_dev_capacity"
                 /\ ms[i].labels = LABELS_B

\* C8 as claimed: a successful extraction returns one bcachefs_dev_alloc_bytes metric
\* per typed row before the first empty line, in row order, and exactly one
\* bcachefs_dev_capacity metric.
C8_ExactlyOneCapacity ==
    (ExtractDone /\ IsOk(parsed.res)) =>
        /\ RowsToMetrics(table, parsed.res.val)
        /\ CapacityCount(parsed.res.val) = 1

\* C8 as amended: a successful extraction returns one metric per row before the first
\* empty line, in row order: bcachefs_dev_alloc_bytes (base labels plus type) for a
\* typed row, bcachefs_dev_capacity (base labels only) for a capacity row; there are as
\* many capacity metrics as capacity rows, which may be none or several.
C8_OnePerRow ==
    (ExtractDone /\ IsOk(parsed.res)) => RowsToMetrics(table, parsed.res.val)

C8_Witness ==
    /\ ExtractDone /\ IsOk(parsed.res)
    /\ Len(parsed.res.val) = 3
    /\ parsed.res.val[1].name = "bcachefs_dev_alloc_bytes"
    /\ parsed.res.val[1].value = 10240
    /\ parsed.res.val[2].name = "bcachefs_dev_capacity"
    /\ parsed.res.val[2].value = 409600
    /\ parsed.res.val[3].name = "bcachefs_dev_capacity"

UnusedCellInvalid(cells) == IsTyped(cells) /\ (IsErr(parse(cells[2])) \/ IsErr(parse(cells[4])))
SectorsValid(cells) == IsTyped(cells) /\ IsOk(parse(cells[3]))

\* C10 as claimed: a typed row whose buckets or fragmented token is not a number makes
\* the extraction fail: it returns no metric list.
C10_UnusedCellsValidated ==
    (AllocDone /\ HeaderOk(table)
        /\ \E i \in 1..Len(Rows(table)) : UnusedCellInvalid(Rows(table)[i]))
        => ~IsOk(parsed.res)

\* The first row that is not a typed row with a valid sectors token (one past the
\* last row when there is none).
FirstStop(rows) ==
    LET stops == {i \in 1..Len(rows) : ~SectorsValid(rows[i])}
    IN  IF stops = {} THEN Len(rows) + 1 ELSE CHOOSE i \in stops : \A j \in stops : i <= j

\* C10 as amended: in a typed row only the sectors token is parsed; the buckets and
\* fragmented tokens are neither parsed nor validated.  A table of typed rows whose
\* sectors tokens are numbers yields one bcachefs_dev_alloc_bytes metric per row,
\* valued sectors_to_bytes(sectors), whatever the buckets and fragmented tokens are;
\* the first typed row whose sectors token is not a number fails the extraction
\* with an error.
C10_OnlySectorsParsed ==
    (AllocDone /\ HeaderOk(table)) =>
        LET rows == Rows(table)
            k == FirstStop(rows)
        IN  /\ k > Len(rows) =>
                 /\ IsOk(parsed.res)
                 /\ Len(parsed.res.val) = Len(rows)
                 /\ \A i \in 1..Len(rows) :
                      /\ parsed.res.val[i].name = "bcachefs_dev_alloc_bytes"
                      /\ parsed.res.val[i].labels[5] = <<"type", rows[i][1]>>
                      /\ parsed.res.val[i].value = sectors_to_bytes(rows[i][3]).val
            /\ (k <= Len(rows) /\ IsTyped(rows[k])) => IsErr(parsed.res)

C10_Witness ==
    /\ AllocDone /\ HeaderOk(table) /\ IsOk(parsed.res)
    /\ Len(Rows(table)) = 2
    /\ Rows(table)[1] = << <<"sb">>, <<"a">>, <<"1">>, <<"0">> >>
    /\ Rows(table)[2] = << <<"btree">>, <<"1">>, <<"2">>, <<"a">> >>
    /\ parsed.res.val[1].value = 512
    /\ parsed.res.val[2].value = 1024

\* ------------------------------------------------------------------ scrape

TABLE_B ==
    File(<<HEADER_LINE,
           Words(<< <<"user">>, <<"1", "0">>, <<"2", "0">>, <<"0">> >>),
           Words(<< CAPACITY, <<"1", "0", "0">> >>)>>)
DIR_B ==
    [block |-> Ok(LINK_B), label |-> Ok(LABEL_FILE_B), bucket_size |-> BUCKET_4KIB,
     alloc_debug |-> Ok(TABLE_B)]

\* What a device directory may hold when Device::get_metrics reads it.
DeviceDirs ==
    {DIR_B,
     [DIR_B EXCEPT !.block = Ok(<< <<"..">>, <<"block">>, <<"sdb">> >>),
                   !.label = Ok(<<"hdd">>),
                   !.alloc_debug = Ok(File(<<HEADER_LINE, Words(<< CAPACITY, <<"2">> >>)>>))],
     [DIR_B EXCEPT !.block = None],
     [DIR_B EXCEPT !.label = None],
     [DIR_B EXCEPT !.alloc_debug = Ok(File(<<Words(<< <<"buckets">>, <<"sectors">> >>)>>))]}

RootNames == Uuids \cup {<<"lost+found">>}
RootListings == {None} \cup {Ok(ns) : ns \in Seqs(RootNames, MaxFs)}

EntryNames ==
    {<<"options">>, <<"internal">>}
    \cup {DEV_PREFIX \o sfx : sfx \in {<<"0">>, <<"1">>, <<"+", "1">>, <<"a", "b", "c">>, <<>>,
                                       <<"-", "1">>, to_string(WordMod)}}
FsListings == {None} \cup {Ok(ns) : ns \in Seqs(EntryNames, MaxEntries)}

Http200(body) == [status |-> "200", content_type |-> "text/plain; version=0.0.4", body |-> body]
\* AppError::into_response
Http500(kind) == [status |-> "500", content_type |-> "text/plain; charset=utf-8",
                  body |-> <<"Something went wrong: ", kind>>]
\* A panic unwinds out of the handler's task (or ends the process, under panic=abort):
\* the connection is closed unanswered.
NoResponse == [status |-> "none", content_type |-> "", body |-> <<>>]

Abort(r) == IF IsErr(r) THEN Http500(r.kind) ELSE NoResponse

InitScrape ==
    /\ overflow_checks \in BOOLEAN
    /\ scrapeIdle
    /\ convIdle /\ encIdle /\ tabIdle

\* GET /metrics arrives: http_metrics calls get_metrics, which calls find_bcachefs.
FindBcachefs ==
    /\ pc = "idle"
    /\ \E listing \in RootListings :
         LET r == find_bcachefs(listing)
         IN  /\ visited' = <<r.tag>>
             /\ IF IsOk(r)
                THEN fs_left' = r.val /\ pc' = "fs_loop" /\ response' = response
                ELSE fs_left' = <<>> /\ pc' = "done" /\ response' = Abort(r)
    /\ UNCHANGED <<overflow_checks, fs_cur, dev_left, found, metrics, convVars, encVars, tabVars>>

\* The next pass of get_metrics' loop: Fs::get_metrics calls find_devices.
FsFindDevices ==
    /\ pc = "fs_loop" /\ fs_left # <<>>
    /\ \E listing \in FsListings :
         LET r == find_devices(Head(fs_left), listing)
         IN  /\ found' = [tag |-> "Some", listing |-> listing, res |-> r]
             /\ visited' = Append(visited, r.tag)
             /\ fs_cur' = Ok(Head(fs_left))
             /\ fs_left' = Tail(fs_left)
             /\ IF IsOk(r)
                THEN /\ dev_left' = r.val
                     /\ pc' = IF r.val = <<>> THEN "fs_loop" ELSE "dev_loop"
                     /\ response' = response
                ELSE dev_left' = <<>> /\ pc' = "done" /\ response' = Abort(r)
    /\ UNCHANGED <<overflow_checks, metrics, convVars, encVars, tabVars>>

\* The next pass of Fs::get_metrics' loop: Device::get_metrics on the next device.
DeviceExtract ==
    /\ pc = "dev_loop" /\ dev_left # <<>>
    /\ \E dir \in DeviceDirs :
         LET d == Head(dev_left)
             r == Device_get_metrics(d.fs, d.device_no, dir)
         IN  /\ visited' = Append(visited, r.tag)
             /\ IF IsOk(r)
                THEN /\ metrics' = metrics \o r.val
                     /\ dev_left' = Tail(dev_left)
                     /\ pc' = IF Tail(dev_left) = <<>> THEN "fs_loop" ELSE "dev_loop"
                     /\ response' = response
                ELSE /\ metrics' = metrics
                     /\ dev_left' = <<>>
                     /\ pc' = "done"
                     /\ response' = Abort(r)
    /\ UNCHANGED <<overflow_checks, fs_left, fs_cur, found, convVars, encVars, tabVars>>

\* get_metrics returned Ok(metrics): http_metrics encodes every metric into the body.
Respond ==
    /\ pc = "fs_loop" /\ fs_left = <<>>
    /\ response' = Http200(Concat([i \in 1..Len(metrics) |-> encode(metrics[i])]))
    /\ pc' = "done"
    /\ UNCHANGED <<overflow_checks, fs_left, fs_cur, dev_left, found, visited, metrics,
                   convVars, encVars, tabVars>>

\* Nothing outlives a request: the next one starts from scratch.
NextRequest ==
    /\ pc = "done"
    /\ pc' = "idle"
    /\ fs_left' = <<>> /\ fs_cur' = None /\ dev_left' = <<>> /\ found' = None
    /\ visited' = <<>> /\ metrics' = <<>> /\ response' = None
    /\ UNCHANGED <<overflow_checks, convVars, encVars, tabVars>>

NextScrape == FindBcachefs \/ FsFindDevices \/ DeviceExtract \/ Respond \/ NextRequest

SpecScrape == InitScrape /\ [][NextScrape]_vars

\* The pass over one filesystem: find_bcachefs has just returned a single Fs.
InitOneFs ==
    /\ overflow_checks \in BOOLEAN
    /\ pc = "fs_loop"
    /\ fs_left \in {<<u>> : u \in Uuids}
    /\ fs_cur = None /\ dev_left = <<>> /\ found = None
    /\ visited = <<"Ok">>
    /\ metrics = <<>>
    /\ response = None
    /\ convIdle /\ encIdle /\ tabIdle

NextOneFs == FsFindDevices \/ DeviceExtract \/ Respond

SpecOneFs == InitOneFs /\ [][NextOneFs]_vars

MetricNames == {"bcachefs_dev_alloc_bytes", "bcachefs_dev_capacity"}
MetricLines(body) == Cardinality({i \in 1..Len(body) : body[i] \in MetricNames})
Failed == \E i \in 1..Len(visited) : visited[i] # "Ok"

\* C1: when discovery or extraction fails anywhere, the pass returns an error (the
\* scrape is answered by the error response) and the response holds no metric line,
\* none of the metrics of devices processed earlier either; a metric body is produced
\* only when every filesystem and device was processed without error.
C1_AllOrNothing ==
    pc = "done" =>
        IF Failed
        THEN response.status = "500" /\ MetricLines(response.body) = 0
        ELSE response.status = "200" /\ MetricLines(response.body) = Len(metrics)

\* Whatever ends the pass, error or panic, no metric line reaches the client unless
\* every step succeeded.
NoPartialBody ==
    pc = "done" =>
        /\ Failed => response.status # "200" /\ MetricLines(response.body) = 0
        /\ ~Failed => response.status = "200" /\ MetricLines(response.body) = Len(metrics)

IsDevName(name) == starts_with(name, DEV_PREFIX)

RECURSIVE NumValue(_)
NumValue(d) == IF d = <<>> THEN 0 ELSE 10 * NumValue(Front(d)) + DigitVal(Last(d))

Unsigned(sfx) == IF sfx # <<>> /\ Head(sfx) = "+" THEN Tail(sfx) ELSE sfx

\* A suffix that denotes a non-negative integer: decimal digits, at least one, with
\* an optional leading +, of a value a usize holds.
IsNonNegInt(sfx) ==
    LET d == Unsigned(sfx)
    IN  /\ d # <<>>
        /\ \A i \in 1..Len(d) : d[i] \in DigitChars
        /\ Len(d) <= Len(to_string(WordMax))
        /\ NumValue(d) <= WordMax

Ordinal(name) == NumValue(Unsigned(strip_prefix(name, DEV_PREFIX)))

\* C9: of the entry names of a filesystem directory, those not starting with dev- are
\* skipped; when every dev-<N> entry has a non-negative integer N, find_devices returns
\* one Device per such entry, with ordinal N, in listing order; when some dev- entry has
\* another suffix, find_devices returns an error, no device list, and the scrape is
\* answered by the error response without any metric line.
C9_FindDevices ==
    (found.tag = "Some" /\ IsOk(found.listing)) =>
        LET devs == SelectSeq(found.listing.val, IsDevName)
        IN  IF \A i \in 1..Len(devs) : IsNonNegInt(strip_prefix(devs[i], DEV_PREFIX))
            THEN found.res = Ok([i \in 1..Len(devs) |-> Device(fs_cur.val, Ordinal(devs[i]))])
            ELSE /\ IsErr(found.res)
                 /\ pc = "done"
                 /\ response.status = "500"
                 /\ MetricLines(response.body) = 0

C9_Witness ==
    /\ found.tag = "Some"
    /\ found.listing = Ok(<< <<"options">>, <<"d", "e", "v", "-", "1">> >>)
    /\ found.res = Ok(<<Device(UUID_B, 1)>>)
    /\ pc = "dev_loop"

====
